---- MODULE Spec2Model ----
(***************************************************************************)
(* Model of tokio-terminal-resize (src/src/lib.rs).                        *)
(*                                                                         *)
(* resizes() builds a ResizeFuture around tokio_signal's SIGWINCH          *)
(* registration; the future resolves to a ResizeStream, whose poll yields  *)
(* the terminal size once unconditionally and then once per poll of the    *)
(* signal stream that comes back Ready.                                    *)
(*                                                                         *)
(* The environment is the terminal (the value term_size::dimensions()      *)
(* returns), the SIGWINCH signal, and the per-subscription channel of      *)
(* tokio_signal, which coalesces the signals that arrive between two polls *)
(* into one notification.                                                  *)
(***************************************************************************)
EXTENDS Integers, FiniteSets, TLC

\* Number of SIGWINCH signals the environment delivers in a behaviour.
MaxWinch == 2

\* u16::MAX, the largest value usize -> u16 try_into accepts.
U16_MAX == 65535

\* The handles a consumer may hold at the same time, and the one the
\* single-consumer specification drives.
Inst == {1, 2}
Solo == {1}

\* The <<width, height>> pairs (usize) the terminal may report: in range,
\* at both ends of the u16 range, and out of range in the width, in the
\* height and in both.
Sizes == {<<80, 24>>, <<65535, 1>>, <<0, 65535>>,
          <<65536, 24>>, <<80, 65536>>, <<70000, 70000>>}

\* term_size::dimensions(): None, or Some((width, height)).
NoTty == [tty |-> FALSE, w |-> 0, h |-> 0]
Terms == {NoTty} \cup {[tty |-> TRUE, w |-> p[1], h |-> p[2]] : p \in Sizes}

VARIABLES
    term,       \* what term_size::dimensions() returns now
    nWinch,     \* SIGWINCH signals delivered so far
    phase,      \* per handle: "none", "future", "failed", "stream"
    reg,        \* per handle: result of Signal::new: "unset", "ok", "err"
    futres,     \* per handle: last result of ResizeFuture::poll
    sent,       \* per handle: ResizeStream.sent_initial_size
    raw,        \* per handle: signals buffered (coalesced) in winches
    closed,     \* per handle: the signal stream's sender side is gone
    subs,       \* per handle: SIGWINCH subscriptions (Signal values) it owns
    hist,       \* per handle: kind of the result of its latest poll
    last        \* the latest ResizeStream::poll, as the caller observed it

vars == <<term, nWinch, phase, reg, futres, sent, raw, closed, subs, hist,
          last>>

----------------------------------------------------------------------------
(* Results *)

Ok(rows, cols) == [kind |-> "Ok", rows |-> rows, cols |-> cols]
Err(e) == [kind |-> e, rows |-> 0, cols |-> 0]
NotReady == [kind |-> "NotReady", rows |-> 0, cols |-> 0]
EndOfStream == [kind |-> "End", rows |-> 0, cols |-> 0]

\* The record of a poll: the handle polled, what winches.poll() returned
\* ("Unpolled" when poll did not call it) with n signals buffered, how many
\* times term_size() was called, the terminal at that moment, the result, and
\* the kind of the result of the handle's poll before this one. seq is the
\* parity of the number of polls made: a step is a poll exactly when it
\* changes last.seq.
NoPoll == [inst |-> 0, seq |-> 0, src |-> "none", n |-> 0, probes |-> 0,
           probe |-> NoTty, out |-> Err("none"), prev |-> "none"]

----------------------------------------------------------------------------
(* term_size(), lines 116-125 *)

try_into_wraps(v) == [ok |-> TRUE, v |-> v % (U16_MAX + 1)]

\* usize -> u16 TryInto: fails when the value does not fit.
try_into(v) ==
    IF v <= U16_MAX THEN [ok |-> TRUE, v |-> v] ELSE [ok |-> FALSE, v |-> 0]

term_size_swapped(t) ==
    IF t.tty
    THEN LET r == try_into(t.h)
             c == try_into(t.w)
         IN  IF r.ok /\ c.ok THEN Ok(c.v, r.v) ELSE Err("InvalidTerminalSize")
    ELSE Err("GetTerminalSize")

term_size_default(t) ==
    IF t.tty
    THEN LET r == try_into(t.h)
             c == try_into(t.w)
         IN  IF r.ok /\ c.ok THEN Ok(r.v, c.v) ELSE Err("InvalidTerminalSize")
    ELSE Ok(0, 0)

\* dimensions() gives (cols, rows); the result is (rows, cols), each narrowed
\* with `?`, rows first.
term_size(t) ==
    IF t.tty
    THEN LET r == try_into(t.h)
             c == try_into(t.w)
         IN  IF ~r.ok THEN Err("InvalidTerminalSize")
             ELSE IF ~c.ok THEN Err("InvalidTerminalSize")
             ELSE Ok(r.v, c.v)
    ELSE Err("GetTerminalSize")

----------------------------------------------------------------------------
(* ResizeFuture, lines 52-92 *)

and_then_constructs(r) == "stream"

\* .context(SigWinchHandler).and_then(|stream| ok(ResizeStream {..})): the
\* handle the future resolves to, from the result of Signal::new.
and_then(r) == IF r = "ok" THEN "stream" ELSE "failed"

initial_flag_set == TRUE

\* sent_initial_size: false, line 75.
initial_flag == FALSE

signal_new_calls_twice == 1 + 1

\* ResizeFuture::default() calls Signal::new once, line 66.
signal_new_calls == 1

\* Whether the handle holds a subscription to SIGWINCH.
Subscribed(i) == reg[i] = "ok" /\ phase[i] \in {"future", "stream"}

\* resizes(): ResizeFuture::default() calls Signal::new(SIGWINCH), which
\* registers the handler or fails.
resizes(i) ==
    /\ phase[i] = "none"
    /\ \E r \in {"ok", "err"} :
         /\ reg' = [reg EXCEPT ![i] = r]
         /\ subs' = [subs EXCEPT ![i] =
                        IF r = "ok" THEN @ + signal_new_calls ELSE @]
    /\ phase' = [phase EXCEPT ![i] = "future"]
    /\ UNCHANGED <<term, nWinch, futres, sent, raw, closed, hist, last>>

\* ResizeFuture::poll delegates to stream_fut.
ResizeFuture_poll(i) ==
    /\ phase[i] = "future"
    /\ \E ready \in BOOLEAN :
         IF ~ready
         THEN /\ futres' = [futres EXCEPT ![i] = "NotReady"]
              /\ UNCHANGED <<phase, sent>>
         ELSE /\ phase' = [phase EXCEPT ![i] = and_then(reg[i])]
              /\ futres' = [futres EXCEPT ![i] =
                               IF reg[i] = "ok" THEN "Ok" ELSE "SigWinchHandler"]
              /\ sent' = [sent EXCEPT ![i] = initial_flag]
    /\ UNCHANGED <<term, nWinch, reg, raw, closed, subs, hist, last>>

----------------------------------------------------------------------------
(* ResizeStream::poll, lines 106-113 *)

\* What self.winches.poll() can return: the buffered notification if there
\* is one, else NotReady while the sender lives and Ready(None) once it is
\* gone; an I/O error while the stream has not ended.
WinchesResults(i) ==
    (IF raw[i] > 0 THEN {"Notify"}
     ELSE IF closed[i] THEN {"End"} ELSE {"NotReady"})
    \cup (IF closed[i] /\ raw[i] = 0 THEN {} ELSE {"Err"})

skips_source_never(s) == FALSE

\* if !self.sent_initial_size, line 107.
skips_source(s) == ~s

flag_after_reset_on_error(s, src) == IF src = "Err" THEN FALSE ELSE TRUE

\* self.sent_initial_size = true (line 108) when it was unset; no other
\* assignment.
flag_after(s, src) == IF ~s THEN TRUE ELSE s

try_ready_ignores_pending(src) == IF src = "Err" THEN "Err" ELSE "Go"

try_ready_drops_wakeup(src) ==
    IF src = "Err" THEN "Err" ELSE IF src = "End" THEN "Go" ELSE "NotReady"

\* futures::try_ready!(self.winches.poll()), line 111: returns early on
\* NotReady and on Err; on Ready(v) evaluates to v, which the statement
\* discards, be it Some(()) or None.
try_ready(src) ==
    CASE src = "NotReady" -> "NotReady"
      [] src = "Err" -> "Err"
      [] OTHER -> "Go"

flag_store_shared(f, i, v) == [j \in Inst |-> v]

\* self.sent_initial_size is a field of the stream polled.
flag_store(f, i, v) == [f EXCEPT ![i] = v]

buffered_after_drained_by_first_poll(n, src) ==
    IF src \in {"Notify", "Unpolled"} THEN 0 ELSE n

\* What winches holds after the poll: only a winches.poll() that yields the
\* notification takes it; the first poll does not touch winches.
buffered_after(n, src) == IF src = "Notify" THEN 0 ELSE n

\* One call of poll whose winches.poll(), if made, returns src.
Poll(i, src) ==
    /\ phase[i] = "stream"
    /\ IF skips_source(sent[i])
       THEN src = "Unpolled"
       ELSE src \in WinchesResults(i)
    /\ LET go == IF src = "Unpolled" THEN "Go" ELSE try_ready(src)
           out == CASE go = "NotReady" -> NotReady
                    [] go = "Err" -> Err("SigWinchHandler")
                    [] OTHER -> term_size(term)
       IN  /\ sent' = flag_store(sent, i, flag_after(sent[i], src))
           /\ raw' = [raw EXCEPT ![i] = buffered_after(@, src)]
           /\ last' = [inst |-> i, seq |-> 1 - last.seq, src |-> src,
                       n |-> IF src = "Unpolled" THEN 0 ELSE raw[i],
                       probes |-> IF go = "Go" THEN 1 ELSE 0,
                       probe |-> term, out |-> out, prev |-> hist[i]]
           /\ hist' = [hist EXCEPT ![i] = out.kind]
    /\ UNCHANGED <<term, nWinch, phase, reg, futres, closed, subs>>

SrcResults == {"Unpolled", "Notify", "NotReady", "End", "Err"}

ResizeStream_poll(i) == \E src \in SrcResults : Poll(i, src)

drop_leaks(n) == n

\* The subscriptions a handle owns after it is dropped: the Signal is a
\* field of the boxed winches (or of the pending future) and goes with it.
drop_subs(n) == 0

\* Dropping the handle (future or stream) drops the Signal it owns.
Drop(i) ==
    /\ phase[i] # "none"
    /\ phase' = [phase EXCEPT ![i] = "none"]
    /\ reg' = [reg EXCEPT ![i] = "unset"]
    /\ futres' = [futres EXCEPT ![i] = "none"]
    /\ sent' = [sent EXCEPT ![i] = FALSE]
    /\ raw' = [raw EXCEPT ![i] = 0]
    /\ closed' = [closed EXCEPT ![i] = FALSE]
    /\ subs' = [subs EXCEPT ![i] = drop_subs(@)]
    /\ hist' = [hist EXCEPT ![i] = "none"]
    /\ UNCHANGED <<term, nWinch, last>>

----------------------------------------------------------------------------
(* Environment *)

\* The terminal changes size, is detached or attached.
TermChange ==
    /\ \E t \in Terms : t # term /\ term' = t
    /\ UNCHANGED <<nWinch, phase, reg, futres, sent, raw, closed, subs, hist, last>>

\* SIGWINCH is delivered to every live subscription.
Winch ==
    /\ nWinch < MaxWinch
    /\ nWinch' = nWinch + 1
    /\ raw' = [i \in Inst |->
                 IF Subscribed(i) /\ ~closed[i] THEN raw[i] + 1 ELSE raw[i]]
    /\ UNCHANGED <<term, phase, reg, futres, sent, closed, subs, hist, last>>

\* The sending side of a subscription's channel goes away.
SourceEnd(i) ==
    /\ Subscribed(i)
    /\ ~closed[i]
    /\ closed' = [closed EXCEPT ![i] = TRUE]
    /\ UNCHANGED <<term, nWinch, phase, reg, futres, sent, raw, subs, hist,
                   last>>

----------------------------------------------------------------------------

Init ==
    /\ term \in Terms
    /\ nWinch = 0
    /\ phase = [i \in Inst |-> "none"]
    /\ reg = [i \in Inst |-> "unset"]
    /\ futres = [i \in Inst |-> "none"]
    /\ sent = [i \in Inst |-> FALSE]
    /\ raw = [i \in Inst |-> 0]
    /\ closed = [i \in Inst |-> FALSE]
    /\ subs = [i \in Inst |-> 0]
    /\ hist = [i \in Inst |-> "none"]
    /\ last = NoPoll

Next ==
    \/ \E i \in Solo : resizes(i)
    \/ \E i \in Solo : ResizeFuture_poll(i)
    \/ \E i \in Solo : ResizeStream_poll(i)
    \/ \E i \in Solo : Drop(i)
    \/ \E i \in Solo : SourceEnd(i)
    \/ TermChange
    \/ Winch

Spec == Init /\ [][Next]_vars

\* The consumer keeps polling, and a poll of winches with a notification
\* buffered is handed that notification.
FairSpec == Spec /\ \A i \in Solo : WF_vars(Poll(i, "Notify"))

\* Two handles held and polled by the same process in any interleaving,
\* with the terminal left as it is.
NextPair ==
    \/ \E i \in Inst : resizes(i)
    \/ \E i \in Inst : ResizeFuture_poll(i)
    \/ \E i \in Inst : ResizeStream_poll(i)
    \/ \E i \in Inst : Drop(i)
    \/ \E i \in Inst : SourceEnd(i)
    \/ Winch

SpecPair == Init /\ [][NextPair]_vars

----------------------------------------------------------------------------
(* Properties *)

\* A step is a call of ResizeStream::poll on handle i.
PollStep(i) == last'.seq # last.seq /\ last'.inst = i

\* What a poll that reaches the probe is to return when the terminal is t.
Element(t) ==
    IF ~t.tty THEN Err("GetTerminalSize")
    ELSE IF t.w > 65535 \/ t.h > 65535 THEN Err("InvalidTerminalSize")
    ELSE Ok(t.h, t.w)

\* C1 as stated: the first poll of a stream returns a TerminalSize equal to
\* what the probe reports at that poll.
C1_FirstPollYieldsSize ==
    last.src = "Unpolled" => last.out = Ok(last.probe.h, last.probe.w)

\* C1 as amended: the first poll of a stream never returns NotReady and never
\* polls winches; it returns the probe's result at that poll (the size when
\* the terminal reports dimensions that fit 16 bits, else the probe's error),
\* whether or not a notification is buffered.
C1_FirstPollYieldsProbe ==
    [][\A i \in Inst :
         (PollStep(i) /\ phase[i] = "stream" /\ ~sent[i]) =>
             /\ last'.src = "Unpolled"
             /\ last'.out.kind # "NotReady"
             /\ last'.out = Element(term)
             /\ raw'[i] = raw[i]]_vars

C1_Witness ==
    /\ last.inst \in Inst
    /\ last.src = "Unpolled"
    /\ last.out = Ok(24, 80)
    /\ phase[last.inst] = "stream"
    /\ raw[last.inst] > 0

\* C2: after the first element, a poll returns an element only when its poll
\* of winches yielded a notification.
C2_NoFreeRun ==
    (/\ last.src \in {"Notify", "NotReady", "End", "Err"}
     /\ last.out.kind \in {"Ok", "GetTerminalSize", "InvalidTerminalSize"})
        => (last.src = "Notify" /\ last.n >= 1)

\* C3: a poll whose winches.poll() returns Ready(None) returns Ready(None):
\* neither a size nor an error. (An ended winches returns Ready(None) to
\* every later poll too.)
C3_SourceEndEndsStream ==
    last.src = "End" => last.out = EndOfStream

\* C4: a poll that returns a size returns (rows, cols) = (height, width) of
\* what the probe reports, for every report in which both fit 16 bits.
C4_RowsThenCols ==
    (/\ last.src \in {"Unpolled", "Notify"}
     /\ last.probe.tty
     /\ last.probe.w \in 0..65535
     /\ last.probe.h \in 0..65535)
        => (last.out.kind = "Ok" /\ last.out.rows = last.probe.h
                                 /\ last.out.cols = last.probe.w)

C4_Witness ==
    /\ last.probe = [tty |-> TRUE, w |-> 80, h |-> 24]
    /\ last.out = Ok(24, 80)

\* C5: when the probe reports a width or a height above 65535 the poll
\* returns InvalidTerminalSize, and no size is ever returned whose rows or
\* cols differ from the height or the width reported.
C5_OutOfRangeRejected ==
    /\ (/\ last.src \in {"Unpolled", "Notify"}
        /\ last.probe.tty
        /\ (last.probe.w > 65535 \/ last.probe.h > 65535))
           => last.out = Err("InvalidTerminalSize")
    /\ last.out.kind = "Ok"
           => (last.out.rows = last.probe.h /\ last.out.cols = last.probe.w)

C5_Witness ==
    /\ last.probe = [tty |-> TRUE, w |-> 65536, h |-> 24]
    /\ last.out = Err("InvalidTerminalSize")

\* C6: a poll that reaches the probe (the first, or one that consumed a
\* notification) while no terminal is attached returns GetTerminalSize.
C6_NoTerminal ==
    (last.src \in {"Unpolled", "Notify"} /\ ~last.probe.tty)
        => (last.out = Err("GetTerminalSize") /\ last.probes = 1)

C6_Witness ==
    /\ last.src = "Notify"
    /\ ~last.probe.tty
    /\ last.out = Err("GetTerminalSize")

\* C7: N >= 1 signals buffered as one notification lead, under FairSpec, to
\* one poll that takes them all and returns the probe's result at that poll,
\* unless the handle is dropped; and no poll returns NotReady while a
\* notification is buffered.
C7_Coalesced ==
    /\ \A i \in Solo : \A N \in 1..MaxWinch :
          (phase[i] = "stream" /\ sent[i] /\ raw[i] = N)
             ~> \/ phase[i] # "stream"
                \/ /\ last.inst = i
                   /\ last.src = "Notify"
                   /\ last.n >= N
                   /\ raw[i] = 0
                   /\ last.out = Element(last.probe)
    /\ [](last.out.kind = "NotReady" => last.n = 0)

C7_Witness ==
    /\ last.src = "Notify"
    /\ last.n >= 2
    /\ last.out = Ok(24, 80)

\* C8: the flag is false in a stream just constructed, true after every poll
\* of it, whatever the poll returned, and once true stays true for as long
\* as the stream lives.
C8_FlagOnce ==
    [][\A i \in Inst :
         /\ (phase[i] # "stream" /\ phase'[i] = "stream") => ~sent'[i]
         /\ PollStep(i) => sent'[i]
         /\ (phase[i] = "stream" /\ phase'[i] = "stream" /\ sent[i])
               => sent'[i]]_vars

C8_Witness ==
    /\ last.inst \in Inst
    /\ last.src = "Unpolled"
    /\ last.out = Err("GetTerminalSize")
    /\ phase[last.inst] = "stream"
    /\ sent[last.inst]

\* C9: a poll whose winches.poll() fails returns SigWinchHandler without
\* calling the probe and leaves the stream as it was, flag true; the next
\* poll of the stream polls winches again and, when that yields a
\* notification, returns the probe's result.
C9_ErrorLeavesNoTrace ==
    [][\A i \in Inst :
         /\ (PollStep(i) /\ last'.src = "Err") =>
               /\ last'.out = Err("SigWinchHandler")
               /\ last'.probes = 0
               /\ sent[i] /\ sent'[i]
               /\ phase'[i] = phase[i]
               /\ raw'[i] = raw[i]
               /\ closed'[i] = closed[i]
         /\ (PollStep(i) /\ hist[i] = "SigWinchHandler") =>
               /\ last'.src # "Unpolled"
               /\ last'.src = "Notify" => last'.out = Element(term)]_vars

C9_Witness ==
    /\ last.prev = "SigWinchHandler"
    /\ last.src = "Notify"
    /\ last.out = Ok(24, 80)

\* C10: when Signal::new fails, the future resolves to SigWinchHandler, the
\* handle never becomes a stream and is never polled as one, and the
\* registration is not made again.
C10_RegistrationFailure ==
    /\ [](\A i \in Inst :
            reg[i] = "err" =>
               /\ phase[i] \in {"future", "failed"}
               /\ phase[i] = "failed" => futres[i] = "SigWinchHandler"
               /\ futres[i] \in {"none", "NotReady", "SigWinchHandler"}
               /\ hist[i] = "none")
    /\ [][\A i \in Inst :
            reg[i] = "err" =>
               /\ reg'[i] \in {"err", "unset"}
               /\ ~PollStep(i)
               /\ phase[i] = "failed" => phase'[i] \in {"failed", "none"}]_vars

C10_Witness ==
    \E i \in Inst :
        /\ reg[i] = "err"
        /\ phase[i] = "failed"
        /\ futres[i] = "SigWinchHandler"

\* C11: dropping a handle tears its subscription down and leaves nothing of
\* it behind, so that resizes() can be called again; the stream built then
\* starts with the flag unset and its first poll returns the probe's result
\* without polling winches, in every construct/drop cycle.
C11_DropThenConstruct ==
    /\ [](\A i \in Inst : phase[i] = "none" =>
            /\ subs[i] = 0 /\ ~Subscribed(i)
            /\ reg[i] = "unset" /\ raw[i] = 0 /\ ~closed[i] /\ ~sent[i]
            /\ ENABLED resizes(i))
    /\ [][\A i \in Inst :
            /\ (phase[i] = "stream" /\ phase'[i] # "stream") =>
                  phase'[i] = "none"
            /\ (phase[i] # "stream" /\ phase'[i] = "stream") =>
                  (~sent'[i] /\ hist'[i] = "none" /\ subs'[i] = 1)
            /\ (PollStep(i) /\ hist[i] = "none") =>
                  /\ last'.src = "Unpolled"
                  /\ last'.out = Element(term)]_vars

\* A stream not yet polled, built on a handle whose earlier stream was
\* polled and dropped.
C11_Witness ==
    \E i \in Inst :
        /\ phase[i] = "stream"
        /\ subs[i] = 1
        /\ ~sent[i]
        /\ hist[i] = "none"
        /\ last.inst = i
        /\ last.out.kind = "Ok"

\* C12: after a poll that returned GetTerminalSize or InvalidTerminalSize the
\* next poll does not take the initial-size branch again and calls the probe
\* only when its poll of winches yielded a new notification.
C12_NoRetry ==
    last.prev \in {"GetTerminalSize", "InvalidTerminalSize"} =>
        /\ last.src # "Unpolled"
        /\ last.probes = 1 => (last.src = "Notify" /\ last.n >= 1)

\* C13: a poll returns NotReady exactly when its poll of winches did, and
\* then the probe is not called and the stream is left as it was; the probe
\* is called once by a poll that returns a size or a probe error and not at
\* all by one that returns NotReady or SigWinchHandler.
C13_OneSuspensionPoint ==
    /\ [](last.inst \in Inst =>
            /\ last.out.kind = "NotReady" <=> last.src = "NotReady"
            /\ last.src = "NotReady" => (last.n = 0 /\ last.prev # "none")
            /\ last.out.kind \in {"Ok", "GetTerminalSize", "InvalidTerminalSize"}
                  => last.probes = 1
            /\ last.out.kind \in {"NotReady", "SigWinchHandler"}
                  => last.probes = 0)
    /\ [][\A i \in Inst :
            (PollStep(i) /\ sent[i] /\ raw[i] = 0 /\ last'.src = "NotReady") =>
                /\ last'.out = NotReady
                /\ sent'[i] = sent[i] /\ raw'[i] = raw[i]
                /\ closed'[i] = closed[i] /\ phase'[i] = phase[i]
                /\ reg'[i] = reg[i] /\ subs'[i] = subs[i]]_vars

C13_Witness ==
    /\ last.inst \in Inst
    /\ last.src = "NotReady"
    /\ last.out = NotReady
    /\ last.probes = 0
    /\ sent[last.inst]

\* C14: the first poll leaves winches as it was, so a notification buffered
\* before it is still buffered after it; the second poll then does not
\* return NotReady, and returns the probe's result when winches hands the
\* notification over.
C14_PendingSurvivesFirstPoll ==
    [][\A i \in Inst :
         /\ (PollStep(i) /\ phase[i] = "stream" /\ ~sent[i]) =>
               /\ raw'[i] = raw[i]
               /\ closed'[i] = closed[i]
               /\ last'.probes = 1
         /\ (/\ PollStep(i)
             /\ last.inst = i /\ last.src = "Unpolled" /\ sent[i]
             /\ raw[i] >= 1) =>
               /\ last'.src \in {"Notify", "Err"}
               /\ last'.out.kind # "NotReady"
               /\ last'.src = "Notify" =>
                     /\ last'.out = Element(term)
                     /\ last'.n = raw[i]
                     /\ raw'[i] = 0]_vars

\* The second poll of a stream, taking both signals delivered before it.
C14_Witness ==
    /\ last.src = "Notify"
    /\ last.n = MaxWinch
    /\ last.prev = "Ok"
    /\ last.out = Ok(24, 80)

\* C15: a handle owns one subscription from the call of resizes() that
\* registered it until it is dropped, and none otherwise; no poll of the
\* stream changes the subscriptions or the registration.
C15_OneSubscription ==
    /\ [](\A i \in Inst : subs[i] = IF Subscribed(i) THEN 1 ELSE 0)
    /\ [][\A i \in Inst :
            /\ (phase[i] = "none" /\ phase'[i] = "future" /\ reg'[i] = "ok")
                  => subs'[i] = 1
            /\ PollStep(i) =>
                  (subs' = subs /\ reg' = reg /\ closed' = closed)]_vars

C15_Witness ==
    /\ last.inst \in Inst
    /\ subs[last.inst] = 1
    /\ last.src = "Err"
    /\ last.prev = "InvalidTerminalSize"

\* C16: under any interleaving of the polls of two streams, a poll of one
\* changes nothing of the other, and the first poll of each returns the
\* probe's result without polling winches.
C16_Independent ==
    [][\A i \in Inst : PollStep(i) =>
         /\ \A j \in Inst \ {i} :
               /\ sent'[j] = sent[j]
               /\ raw'[j] = raw[j]
               /\ hist'[j] = hist[j]
               /\ phase'[j] = phase[j]
               /\ subs'[j] = subs[j]
         /\ ~sent[i] =>
               /\ last'.src = "Unpolled"
               /\ last'.out = Element(term)]_vars

\* Both streams live, the first polled twice or more and the second not yet.
C16_Witness ==
    /\ phase[1] = "stream" /\ phase[2] = "stream"
    /\ last.inst = 1
    /\ last.src = "Notify"
    /\ sent[1]
    /\ ~sent[2]
    /\ raw[2] >= 1

====
